---- MODULE Spec2Model ----
(***************************************************************************)
(* CLAWS (src/claws/__main__.py): a population of StateMachine workers     *)
(* walks a declarative state graph over an HTTP session, under one asyncio *)
(* event loop; main() launches a population per round and feeds a          *)
(* MetricsCollector whose `running` flag a SIGINT handler clears.          *)
(*                                                                         *)
(* Modelling decisions                                                     *)
(*  - asyncio runs one coroutine at a time: `current` is the coroutine     *)
(*    that holds the event loop (Idle when the loop is selecting).  A      *)
(*    coroutine gives the loop back only at `await` of the HTTP call, at   *)
(*    asyncio.wait, or when it ends.  New tasks run in creation order      *)
(*    before any I/O callback (the ready queue is FIFO).                   *)
(*  - the SIGINT handler (collector.stop) runs between any two steps.      *)
(*  - a dict is the set of its <<key, value>> pairs; None is the empty     *)
(*    set where a dict is expected (both are falsy in Python).             *)
(*  - a status is an integer; NoStatus stands for Python's None.           *)
(*  - response_time is left out of a metric; `id` is the identity of the   *)
(*    Python dict object (worker, position), which list.extend preserves.  *)
(*  - the HTTP capability is a deterministic mock: one outcome per task   *)
(*    (a status, or aiohttp.ClientError), chosen with the config in Init.  *)
(*  - after main() returns, asyncio.run cancels what is left: no Worker    *)
(*    step follows the report.                                             *)
(*  - harvest_log is a history variable: what each add_metrics call of     *)
(*    main() took, and whether that Worker's task was done.                *)
(***************************************************************************)
EXTENDS Integers, Sequences, FiniteSets, TLC

VARIABLES
    config,          \* the config dict of main(), shared by reference
    mock,            \* the HTTP capability: task name -> its outcome
    sm,              \* every StateMachine instance created so far
    state_machines,  \* main()'s local list: the current population (ids in sm)
    collector,       \* the MetricsCollector: [running, metrics]
    main,            \* position of main()
    current,         \* the coroutine holding the event loop
    output,          \* what display_metrics has printed
    harvest_log      \* history: one entry per add_metrics call of main()

vars == <<config, mock, sm, state_machines, collector, main, current, output,
          harvest_log>>

\* ---------------------------------------------------------------- bounds
PoolSize == 2      \* number of credentials in the pool (= workers per round)
MaxRounds == 2     \* populations main() may launch
MaxRequests == 6   \* requests the HTTP capability serves

\* ------------------------------------------------------------- constants
Idle == 0 - 1      \* `current`: the event loop is in select()
Main == 0          \* `current`: main() runs
NoStatus == 0      \* Python None as a status (transport failure)
NoError == "None"  \* Python None as an error description

Statuses == {200, 404}
Results == Statuses \cup {NoStatus}    \* Option<int>

\* ---------------------------------------------------------------- dicts
Keys(d) == {p[1] : p \in d}

\* dict.update(other): other's keys override
UpdateKeepOld(d, other) == d \cup {p \in other : p[1] \notin Keys(d)}
Update(d, other) == {p \in d : p[1] \notin Keys(other)} \cup other

\* ------------------------------------------------------------ the configs
NoParams == [has_data |-> FALSE, data |-> {}]
Task(name, method, url, params) ==
    [name |-> name, method |-> method, url |-> url, params |-> params]
Transition(condition, next_state, terminate) ==
    [condition |-> condition, next_state |-> next_state, terminate |-> terminate]
Empty == [tasks |-> <<>>, transitions |-> <<>>]

\* the graph of main()
MainConfig ==
    [initial_state |-> "LOGIN",
     states |->
       [LOGIN |->
          [tasks |-> <<Task("login", "POST", "https://example.com/login",
                            [has_data |-> TRUE, data |-> {}])>>,
           transitions |-> <<Transition({200}, "FETCH_DATA", FALSE),
                             Transition(Results \ {200}, "LOGIN_FAILED", TRUE)>>],
        FETCH_DATA |->
          [tasks |-> <<Task("fetch_data", "GET", "https://example.com/data", NoParams)>>,
           transitions |-> <<Transition({200}, "COMPLETE", FALSE),
                             Transition(Results \ {200}, "ERROR", TRUE)>>],
        LOGIN_FAILED |-> Empty,
        ERROR |-> Empty,
        COMPLETE |-> Empty]]

\* A -(status==200)-> B, A -(status!=200)-> F(terminal)
ScenarioConfig ==
    [initial_state |-> "A",
     states |->
       [A |-> [tasks |-> <<Task("a", "GET", "https://example.com/a", NoParams)>>,
               transitions |-> <<Transition({200}, "B", FALSE),
                                 Transition(Results \ {200}, "F", TRUE)>>],
        B |-> Empty,
        F |-> Empty]]

\* two tasks in LOGIN, overlapping predicates, a status no predicate matches,
\* a cycle, and targets that name no state of the graph
PollConfig ==
    [initial_state |-> "LOGIN",
     states |->
       [LOGIN |->
          [tasks |-> <<Task("login", "POST", "https://example.com/login",
                            [has_data |-> TRUE, data |-> {<<"grant", "password">>}]),
                       Task("ping", "GET", "https://example.com/ping", NoParams)>>,
           transitions |-> <<Transition({200}, "POLL", FALSE),
                             Transition({200, 404}, "DENIED", TRUE)>>],
        POLL |->
          [tasks |-> <<Task("poll", "POST", "https://example.com/poll",
                            [has_data |-> TRUE, data |-> {<<"cursor", "c0">>}])>>,
           transitions |-> <<Transition({404}, "LOGIN", FALSE),
                             Transition({NoStatus}, "GONE", FALSE)>>]]]

Configs == {MainConfig, ScenarioConfig, PollConfig}

TaskNames(cfg) ==
    UNION {{cfg.states[s].tasks[k].name : k \in 1..Len(cfg.states[s].tasks)}
           : s \in DOMAIN cfg.states}

\* what the HTTP capability does with one request: a response with a status,
\* or aiohttp.ClientError raised
Response(status) == [raised |-> FALSE, status |-> status, exc |-> ""]
Failure == [raised |-> TRUE, status |-> NoStatus, exc |-> "Cannot connect to host"]
HttpOutcomes == {Response(s) : s \in Statuses} \cup {Failure}

\* the HTTP capability is deterministic: every request of a task has the
\* same outcome
Mocks(cfg) == [TaskNames(cfg) -> HttpOutcomes]

\* the credential pool of main(); a credential is any mapping from strings to
\* strings, and the first one of the pool carries one field more than the
\* others
credentials ==
    [k \in 1..PoolSize |->
        {<<"username", "user" \o ToString(k)>>, <<"password", "pass" \o ToString(k)>>}
            \cup (IF k = 1 THEN {<<"otp", "otp" \o ToString(k)>>} ELSE {})]

\* ------------------------------------------------------------ StateMachine
NoRequest == [method |-> "", url |-> "", has_data |-> FALSE, data |-> {}]

\* StateMachine.__init__
NewStateMachine ==
    [state |-> config.initial_state,
     credentials |-> credentials,
     current_credential |-> {},
     metrics |-> <<>>,
     pc |-> "new",
     i |-> 0,
     request |-> NoRequest]

Finished(w) == sm[w].pc \in {"returned", "exited"}

StateConfig(w) == config.states[sm[w].state]

\* asyncio starts the tasks created by one round in creation order
NextNew == IF \E w \in DOMAIN sm : sm[w].pc = "new"
           THEN CHOOSE w \in DOMAIN sm :
                    sm[w].pc = "new" /\ \A v \in DOMAIN sm : sm[v].pc = "new" => w <= v
           ELSE 0

\* the task's first step: run() is entered
Start(w) ==
    /\ current = Idle
    /\ w = NextNew
    /\ sm' = [sm EXCEPT ![w].pc = "top"]
    /\ current' = w
    /\ UNCHANGED <<config, mock, state_machines, collector, main, output, harvest_log>>

\* line 48-52: the while condition and the first check of the flag
WhileEndsWithoutTasks(w) ==
    /\ current = w
    /\ sm[w].pc = "top"
    /\ IF /\ sm[w].state \in DOMAIN config.states
          /\ collector.running
          /\ config.states[sm[w].state].tasks # <<>>
       THEN /\ sm' = [sm EXCEPT ![w].pc = "for", ![w].i = 1]
            /\ UNCHANGED current
       ELSE /\ sm' = [sm EXCEPT ![w].pc = "exited"]
            /\ current' = Idle
    /\ UNCHANGED <<config, mock, state_machines, collector, main, output, harvest_log>>
While(w) ==
    /\ current = w
    /\ sm[w].pc = "top"
    /\ IF sm[w].state \in DOMAIN config.states /\ collector.running
       THEN /\ sm' = [sm EXCEPT ![w].pc = "for", ![w].i = 1]
            /\ UNCHANGED current
       ELSE /\ sm' = [sm EXCEPT ![w].pc = "exited"]
            /\ current' = Idle
    /\ UNCHANGED <<config, mock, state_machines, collector, main, output, harvest_log>>

\* line 53-55: the next task of the list, and the second check of the flag
ForIgnoresFlag(w) ==
    /\ current = w
    /\ sm[w].pc = "for"
    /\ IF sm[w].i <= Len(StateConfig(w).tasks)
       THEN sm' = [sm EXCEPT ![w].pc = "exec"]
       ELSE sm' = [sm EXCEPT ![w].pc = "top"]
    /\ UNCHANGED <<config, mock, state_machines, collector, main, output, current,
                   harvest_log>>
For(w) ==
    /\ current = w
    /\ sm[w].pc = "for"
    /\ IF sm[w].i <= Len(StateConfig(w).tasks) /\ collector.running
       THEN sm' = [sm EXCEPT ![w].pc = "exec"]
       ELSE sm' = [sm EXCEPT ![w].pc = "top"]
    /\ UNCHANGED <<config, mock, state_machines, collector, main, output, current,
                   harvest_log>>

\* requests sent so far: answered (a metric each) or in flight
RECURSIVE Sum(_, _)
Sum(f, S) == IF S = {} THEN 0
             ELSE LET x == CHOOSE x \in S : TRUE IN f[x] + Sum(f, S \ {x})
Requests ==
    Sum([w \in DOMAIN sm |-> Len(sm[w].metrics) + IF sm[w].pc = "await" THEN 1 ELSE 0],
        DOMAIN sm)

\* line 57-58: list.pop(0)
PopBack(q) == [credential |-> q[Len(q)], rest |-> SubSeq(q, 1, Len(q) - 1)]
Pop(q) == [credential |-> Head(q), rest |-> Tail(q)]

\* line 57-60 and 19-26: pop a credential in LOGIN, merge it into the task's
\* params["data"] (the dict of the shared config) and send the request
ExecPopsOnEntry(w) ==
    /\ current = w
    /\ sm[w].pc = "exec"
    /\ Requests < MaxRequests
    /\ LET s == sm[w].state
           k == sm[w].i
           task == config.states[s].tasks[k]
           popped == s = "LOGIN" /\ k = 1 /\ sm[w].credentials # <<>>
           cred == IF popped THEN Pop(sm[w].credentials).credential
                   ELSE sm[w].current_credential
           rest == IF popped THEN Pop(sm[w].credentials).rest
                   ELSE sm[w].credentials
           merged == cred # {} /\ task.params.has_data
           data == IF merged THEN Update(task.params.data, cred)
                   ELSE task.params.data
       IN /\ config' = [config EXCEPT !.states[s].tasks[k].params.data = data]
          /\ sm' = [sm EXCEPT ![w].credentials = rest,
                              ![w].current_credential = cred,
                              ![w].pc = "await",
                              ![w].request = [method |-> task.method,
                                              url |-> task.url,
                                              has_data |-> task.params.has_data,
                                              data |-> data]]
    /\ current' = Idle
    /\ UNCHANGED <<mock, state_machines, collector, main, output, harvest_log>>
Exec(w) ==
    /\ current = w
    /\ sm[w].pc = "exec"
    /\ Requests < MaxRequests
    /\ LET s == sm[w].state
           k == sm[w].i
           task == config.states[s].tasks[k]
           popped == s = "LOGIN" /\ sm[w].credentials # <<>>
           cred == IF popped THEN Pop(sm[w].credentials).credential
                   ELSE sm[w].current_credential
           rest == IF popped THEN Pop(sm[w].credentials).rest
                   ELSE sm[w].credentials
           merged == cred # {} /\ task.params.has_data
           data == IF merged THEN Update(task.params.data, cred)
                   ELSE task.params.data
       IN /\ config' = [config EXCEPT !.states[s].tasks[k].params.data = data]
          /\ sm' = [sm EXCEPT ![w].credentials = rest,
                              ![w].current_credential = cred,
                              ![w].pc = "await",
                              ![w].request = [method |-> task.method,
                                              url |-> task.url,
                                              has_data |-> task.params.has_data,
                                              data |-> data]]
    /\ current' = Idle
    /\ UNCHANGED <<mock, state_machines, collector, main, output, harvest_log>>

\* line 61-62: the first transition whose condition holds of the status, 0 if none
LastMatch(transitions, status) ==
    LET hits == {k \in 1..Len(transitions) : status \in transitions[k].condition}
    IN IF hits = {} THEN 0 ELSE CHOOSE k \in hits : \A j \in hits : j <= k
FirstMatch(transitions, status) ==
    LET hits == {k \in 1..Len(transitions) : status \in transitions[k].condition}
    IN IF hits = {} THEN 0 ELSE CHOOSE k \in hits : \A j \in hits : k <= j

\* line 19-45: the metric appended and the value returned for an outcome
ExecuteTaskNoError(w, o) ==
    [metric |-> [state |-> sm[w].state,
                 task |-> StateConfig(w).tasks[sm[w].i].name,
                 status |-> o.status,
                 error |-> NoError,
                 id |-> <<w, Len(sm[w].metrics) + 1>>],
     status |-> o.status]
ExecuteTaskTagsInitial(w, o) ==
    [metric |-> [state |-> config.initial_state,
                 task |-> StateConfig(w).tasks[sm[w].i].name,
                 status |-> IF o.raised THEN NoStatus ELSE o.status,
                 error |-> IF o.raised THEN o.exc ELSE NoError,
                 id |-> <<w, Len(sm[w].metrics) + 1>>],
     status |-> IF o.raised THEN NoStatus ELSE o.status]
ExecuteTask(w, o) ==
    [metric |-> [state |-> sm[w].state,
                 task |-> StateConfig(w).tasks[sm[w].i].name,
                 status |-> IF o.raised THEN NoStatus ELSE o.status,
                 error |-> IF o.raised THEN o.exc ELSE NoError,
                 id |-> <<w, Len(sm[w].metrics) + 1>>],
     status |-> IF o.raised THEN NoStatus ELSE o.status]

\* line 61-70: where run() goes after a task returned `status`
AfterTaskNoReturn(w, status) ==
    LET trs == StateConfig(w).transitions
        k == FirstMatch(trs, status)
    IN IF k = 0 THEN [state |-> sm[w].state, pc |-> "for", i |-> sm[w].i + 1]
       ELSE [state |-> trs[k].next_state, pc |-> "top", i |-> sm[w].i]
AfterTaskRetry(w, status) ==
    LET trs == StateConfig(w).transitions
        k == FirstMatch(trs, status)
    IN IF k = 0 THEN [state |-> sm[w].state, pc |-> "for", i |-> sm[w].i]
       ELSE IF trs[k].terminate
       THEN [state |-> trs[k].next_state, pc |-> "returned", i |-> sm[w].i]
       ELSE [state |-> trs[k].next_state, pc |-> "top", i |-> sm[w].i]
AfterTaskNoBreak(w, status) ==
    LET trs == StateConfig(w).transitions
        k == FirstMatch(trs, status)
    IN IF k = 0 THEN [state |-> sm[w].state, pc |-> "for", i |-> sm[w].i + 1]
       ELSE IF trs[k].terminate
       THEN [state |-> trs[k].next_state, pc |-> "returned", i |-> sm[w].i]
       ELSE [state |-> trs[k].next_state, pc |-> "for", i |-> sm[w].i + 1]
AfterTask(w, status) ==
    LET trs == StateConfig(w).transitions
        k == FirstMatch(trs, status)
    IN IF k = 0 THEN [state |-> sm[w].state, pc |-> "for", i |-> sm[w].i + 1]
       ELSE IF trs[k].terminate
       THEN [state |-> trs[k].next_state, pc |-> "returned", i |-> sm[w].i]
       ELSE [state |-> trs[k].next_state, pc |-> "top", i |-> sm[w].i]

\* line 26-45 and 60-70: the HTTP call completes and run() resumes
Respond(w) ==
    /\ current = Idle
    /\ NextNew = 0
    /\ main # "exit"
    /\ sm[w].pc = "await"
    /\ LET done == ExecuteTask(w, mock[StateConfig(w).tasks[sm[w].i].name])
           next == AfterTask(w, done.status)
       IN /\ sm' = [sm EXCEPT ![w].metrics = Append(@, done.metric),
                              ![w].state = next.state,
                              ![w].pc = next.pc,
                              ![w].i = next.i]
          /\ current' = IF next.pc = "returned" THEN Idle ELSE w
    /\ UNCHANGED <<config, mock, state_machines, collector, main, output, harvest_log>>

\* ------------------------------------------------------- MetricsCollector
\* MetricsCollector.__init__
NewCollector == [running |-> TRUE, metrics |-> <<>>]

\* MetricsCollector.add_metrics
AddMetrics(c, new_metrics) == [c EXCEPT !.metrics = @ \o new_metrics]

\* MetricsCollector.stop, the SIGINT handler: it runs between any two steps
Stop ==
    /\ main # "exit"
    /\ collector' = [collector EXCEPT !.running = FALSE]
    /\ UNCHANGED <<config, mock, sm, state_machines, main, current, output, harvest_log>>

\* ------------------------------------------------------------------ main
\* line 139: while collector.running
MainCheckIgnoresFlag ==
    /\ current = Main
    /\ main = "check"
    /\ main' = "launch"
    /\ UNCHANGED <<config, mock, sm, state_machines, collector, current, output,
                   harvest_log>>
MainCheck ==
    /\ current = Main
    /\ main = "check"
    /\ main' = IF collector.running THEN "launch" ELSE "report"
    /\ UNCHANGED <<config, mock, sm, state_machines, collector, current, output,
                   harvest_log>>

\* line 140-146: a StateMachine per credential, a task per StateMachine,
\* and main() suspends in asyncio.wait
LaunchOne ==
    /\ current = Main
    /\ main = "launch"
    /\ Len(sm) < MaxRounds * PoolSize
    /\ sm' = Append(sm, NewStateMachine)
    /\ state_machines' = <<Len(sm) + 1>>
    /\ main' = "wait"
    /\ current' = Idle
    /\ UNCHANGED <<config, mock, collector, output, harvest_log>>
Launch ==
    /\ current = Main
    /\ main = "launch"
    /\ Len(sm) < MaxRounds * PoolSize
    /\ sm' = sm \o [k \in 1..Len(credentials) |-> NewStateMachine]
    /\ state_machines' = [k \in 1..Len(credentials) |-> Len(sm) + k]
    /\ main' = "wait"
    /\ current' = Idle
    /\ UNCHANGED <<config, mock, collector, output, harvest_log>>

\* line 154-155: add_metrics for every StateMachine of the list, in order
RECURSIVE Harvest(_, _)
Harvest(c, ids) ==
    IF ids = <<>> THEN c
    ELSE Harvest(AddMetrics(c, sm[Head(ids)].metrics), Tail(ids))

\* line 146-155: asyncio.wait returns once a task of the round is done
\* (FIRST_COMPLETED); the done tasks are awaited and the round is harvested
Wait ==
    /\ current = Idle
    /\ NextNew = 0
    /\ main = "wait"
    /\ \E k \in 1..Len(state_machines) : Finished(state_machines[k])
    /\ collector' = Harvest(collector, state_machines)
    /\ main' = "check"
    /\ current' = Main
    /\ harvest_log' = harvest_log \o
          [k \in 1..Len(state_machines) |->
              [sm |-> state_machines[k],
               done |-> Finished(state_machines[k]),
               count |-> Len(sm[state_machines[k]].metrics)]]
    /\ UNCHANGED <<config, mock, sm, state_machines, output>>

\* line 160: display_metrics, after the loop and the session are left
ReportNothing ==
    /\ current = Main
    /\ main = "report"
    /\ main' = "exit"
    /\ UNCHANGED <<config, mock, sm, state_machines, collector, current, output,
                   harvest_log>>
Report ==
    /\ current = Main
    /\ main = "report"
    /\ output' = Append(output, collector.metrics)
    /\ main' = "exit"
    /\ UNCHANGED <<config, mock, sm, state_machines, collector, current, harvest_log>>

\* --------------------------------------------------------- specification
Init ==
    /\ config \in Configs
    /\ mock \in Mocks(config)
    /\ sm = <<>>
    /\ state_machines = <<>>
    /\ collector = NewCollector
    /\ main = "check"
    /\ current = Main
    /\ output = <<>>
    /\ harvest_log = <<>>

Next ==
    \/ \E w \in DOMAIN sm : Start(w)
    \/ \E w \in DOMAIN sm : While(w)
    \/ \E w \in DOMAIN sm : For(w)
    \/ \E w \in DOMAIN sm : Exec(w)
    \/ \E w \in DOMAIN sm : Respond(w)
    \/ Stop
    \/ MainCheck
    \/ Launch
    \/ Wait
    \/ Report

Spec == Init /\ [][Next]_vars

\* The event loop runs a coroutine that is ready, every HTTP call completes
\* and main() goes on when it can; nothing obliges a SIGINT to arrive.
Run ==
    \/ \E w \in DOMAIN sm : Start(w) \/ While(w) \/ For(w) \/ Exec(w) \/ Respond(w)
    \/ MainCheck
    \/ Launch
    \/ Wait
    \/ Report

FairSpec == Spec /\ WF_vars(Run)

\* ------------------------------------------------------------------ claims
Ids == 1..(MaxRounds * PoolSize)

\* a bound of the model, not the program, holds the run up
Capped ==
    \/ main = "launch" /\ Len(sm) >= MaxRounds * PoolSize
    \/ \E w \in DOMAIN sm : sm[w].pc = "exec" /\ Requests >= MaxRequests

InGraph(state) == state \in DOMAIN config.states

\* the last task of w matched a terminal-flagged transition before any other,
\* and w is in that transition's target
TookTerminal(w) ==
    /\ sm[w].metrics # <<>>
    /\ LET m == sm[w].metrics[Len(sm[w].metrics)]
           trs == config.states[m.state].transitions
       IN \E k \in 1..Len(trs) :
            /\ m.status \in trs[k].condition
            /\ \A j \in 1..(k - 1) : m.status \notin trs[j].condition
            /\ trs[k].terminate
            /\ sm[w].state = trs[k].next_state

IsEmptyState(state) ==
    /\ InGraph(state)
    /\ config.states[state].tasks = <<>>
    /\ config.states[state].transitions = <<>>

Last(seq) == seq[Len(seq)]

\* C2 (as stated): a state present in the graph with no tasks and no
\* transitions is terminal: the next step of a Worker at the top of its loop in
\* such a state ends its run there; and in the graph A -200-> B, A -else-> F
\* with the capability returning 200, a Worker that is in B has ended its run
\* or is about to, with the one record (A, a, 200, no error).
C2_EmptyStateIsTerminal ==
    [][\A w \in DOMAIN sm :
          /\ sm[w].pc = "top" /\ IsEmptyState(sm[w].state) /\ sm'[w] # sm[w]
                => sm'[w].pc = "exited" /\ sm'[w].state = sm[w].state
          /\ config.initial_state = "A" /\ mock["a"] = Response(200)
                  /\ sm[w].state = "B"
                => /\ sm[w].pc \in {"top", "exited"}
                   /\ Len(sm[w].metrics) = 1
                   /\ sm[w].metrics[1].status = 200
                   /\ sm[w].metrics[1].error = NoError]_vars

\* ---- C3
\* C3: once a Worker has taken a terminal-flagged transition it is in the
\* transition's target, its run is over, and no step changes it: no further
\* task is sent, no record appended.
C3_TerminalHalts ==
    [][\A w \in DOMAIN sm :
          TookTerminal(w) => sm[w].pc = "returned" /\ sm'[w] = sm[w]]_vars

\* C3 witness: a Worker of the first round returned by a terminal transition
\* with a task of the state it left still unexecuted, and a Worker of the
\* second round has completed a task since.
C3_Witness ==
    \E w \in DOMAIN sm :
        /\ w <= PoolSize
        /\ TookTerminal(w)
        /\ sm[w].i < Len(config.states[Last(sm[w].metrics).state].tasks)
        /\ \E v \in DOMAIN sm : v > PoolSize /\ sm[v].metrics # <<>>

\* ---- C4
\* C4: when a call completes, the Worker's next state is the target of the
\* first transition, in declared order, whose predicate holds of the result.
C4_FirstMatchWins ==
    [][\A w \in DOMAIN sm :
          sm[w].pc = "await" /\ sm'[w].pc # "await" =>
              LET s == Last(sm'[w].metrics).status
                  trs == StateConfig(w).transitions
              IN \A p1 \in 1..Len(trs) :
                    /\ s \in trs[p1].condition
                    /\ \A j \in 1..(p1 - 1) : s \notin trs[j].condition
                    => sm'[w].state = trs[p1].next_state]_vars

\* C4 witness: the last result of a Worker matched two transitions with
\* different targets, and the Worker is in the target of the earlier one.
C4_Witness ==
    \E w \in DOMAIN sm :
        /\ sm[w].metrics # <<>>
        /\ LET m == Last(sm[w].metrics)
               trs == config.states[m.state].transitions
           IN \E p1, p2 \in 1..Len(trs) :
                /\ p1 < p2
                /\ m.status \in trs[p1].condition \cap trs[p2].condition
                /\ trs[p1].next_state # trs[p2].next_state
                /\ sm[w].state = trs[p1].next_state
                /\ sm[w].pc = "await"

\* ---- C5
NoMatch(state, status) ==
    \A k \in 1..Len(config.states[state].transitions) :
        status \notin config.states[state].transitions[k].condition

TaskIndex(state, name) ==
    CHOOSE k \in 1..Len(config.states[state].tasks) :
        config.states[state].tasks[k].name = name

\* the task after task k of a state when nothing matches: the next of the
\* list, and the first again after the last
TaskAfter(state, k) == IF k = Len(config.states[state].tasks) THEN 1 ELSE k + 1

\* C5: a result that matches no transition leaves the Worker in its state; the
\* next task the Worker executes is the next of that state's list, and after
\* the last task the first one again; while the flag is true the Worker does
\* not end its run there.
C5_NoProgressLoop ==
    \A w \in DOMAIN sm :
        \A n \in 1..Len(sm[w].metrics) :
            LET m == sm[w].metrics[n]
                tasks == config.states[m.state].tasks
                k == TaskAfter(m.state, TaskIndex(m.state, m.task))
            IN NoMatch(m.state, m.status) =>
                 IF n < Len(sm[w].metrics)
                 THEN /\ sm[w].metrics[n + 1].state = m.state
                      /\ sm[w].metrics[n + 1].task = tasks[k].name
                 ELSE /\ sm[w].state = m.state
                      /\ sm[w].pc = "await" =>
                            sm[w].i = k /\ sm[w].request.url = tasks[k].url
                      /\ collector.running => ~Finished(w)

\* C5 witness: a Worker went through the whole task list of a state without a
\* match and executed the first task of that state a second time.
C5_Witness ==
    \E w \in DOMAIN sm :
        \E n, n2 \in 1..Len(sm[w].metrics) :
            /\ n < n2
            /\ sm[w].metrics[n].state = sm[w].metrics[n2].state
            /\ sm[w].metrics[n].task = sm[w].metrics[n2].task
            /\ Len(config.states[sm[w].metrics[n].state].tasks) > 1
            /\ \A j \in n..(n2 - 1) :
                  NoMatch(sm[w].metrics[j].state, sm[w].metrics[j].status)

\* ---- C6
\* C6: when the HTTP capability raises a transport failure, the Worker appends
\* one record with no status and the failure description, evaluates its
\* transitions on the absent status and goes on or returns; and in the graph
\* A -200-> B, A -else-> F(terminal) with the capability failing, a Worker that
\* got its answer has returned in F with that one record.
C6_FailureAbsorbed ==
    [][\A w \in DOMAIN sm :
          LET task == StateConfig(w).tasks[sm[w].i]
              trs == StateConfig(w).transitions
          IN /\ sm[w].pc = "await" /\ sm'[w].pc # "await" /\ mock[task.name].raised
                => /\ sm'[w].metrics =
                         Append(sm[w].metrics,
                                [state |-> sm[w].state, task |-> task.name,
                                 status |-> NoStatus, error |-> mock[task.name].exc,
                                 id |-> <<w, Len(sm[w].metrics) + 1>>])
                   /\ mock[task.name].exc # NoError
                   /\ sm'[w].pc \in {"top", "for", "returned"}
                   /\ \A k \in 1..Len(trs) :
                         /\ NoStatus \in trs[k].condition
                         /\ \A j \in 1..(k - 1) : NoStatus \notin trs[j].condition
                         => sm'[w].state = trs[k].next_state
                   /\ NoMatch(sm[w].state, NoStatus) => sm'[w].state = sm[w].state
             /\ config.initial_state = "A" /\ mock["a"] = Failure
                     /\ sm[w].metrics # <<>>
                => /\ sm[w].pc = "returned"
                   /\ sm[w].state = "F"
                   /\ Len(sm[w].metrics) = 1
                   /\ sm[w].metrics[1].status = NoStatus
                   /\ sm[w].metrics[1].error = Failure.exc]_vars

\* C6 witness: in that graph a Worker returned in F after a transport failure,
\* and main() has harvested its record and gone on.
C6_Witness ==
    /\ config.initial_state = "A"
    /\ mock["a"] = Failure
    /\ main \in {"check", "launch"}
    /\ \E w \in DOMAIN sm :
          /\ sm[w].pc = "returned"
          /\ sm[w].state = "F"
          /\ \E n \in 1..Len(collector.metrics) :
                collector.metrics[n] = sm[w].metrics[1]

\* ---- C7, C8
\* C7 (as stated): the Collector holds as many records as the harvested
\* Workers have produced, none of them twice, and every record of a Worker
\* that had finished when it was harvested.
C7_HarvestCount ==
    /\ Len(collector.metrics) =
          Sum([n \in DOMAIN harvest_log |-> Len(sm[harvest_log[n].sm].metrics)],
              DOMAIN harvest_log)
    /\ \A a, b \in DOMAIN collector.metrics :
          a # b => collector.metrics[a].id # collector.metrics[b].id
    /\ \A n \in DOMAIN harvest_log :
          harvest_log[n].done =>
              \A k \in DOMAIN sm[harvest_log[n].sm].metrics :
                  \E a \in DOMAIN collector.metrics :
                      collector.metrics[a] = sm[harvest_log[n].sm].metrics[k]

\* C8 (as stated): a harvest adds no record of a Worker whose run is still in
\* progress.
C8_HarvestsFinishedOnly ==
    \A n \in DOMAIN harvest_log :
        harvest_log[n].done \/ harvest_log[n].count = 0

\* ---- C9
\* C9 (as stated): no step changes the config: every Task keeps the name,
\* verb, URL and body template it had at startup.
C9_ConfigReadOnly == [][config' = config]_vars

\* ---- C10
\* C10: a task sent from LOGIN with a non-empty queue carries the fields of
\* the queue's front credential in its body (when the task declares one), that
\* credential becomes the current credential, and the queue loses its front.
C10_CredentialInjection ==
    [][\A w \in DOMAIN sm :
          /\ sm[w].pc = "exec" /\ sm'[w].pc = "await"
          /\ sm[w].state = "LOGIN" /\ sm[w].credentials # <<>>
          => LET front == Head(sm[w].credentials)
                 task == StateConfig(w).tasks[sm[w].i]
             IN /\ sm'[w].credentials = Tail(sm[w].credentials)
                /\ sm'[w].current_credential = front
                /\ sm'[w].request.url = task.url
                /\ task.params.has_data =>
                      /\ front \subseteq sm'[w].request.data
                      /\ \A p \in sm'[w].request.data :
                            p[1] \in Keys(front) => p \in front]_vars

\* C10 witness: a Worker back in LOGIN sent its first task with the second
\* credential of its queue, after the first one had been merged into the
\* shared body by an earlier request.
C10_Witness ==
    \E w \in DOMAIN sm :
        /\ sm[w].pc = "await"
        /\ sm[w].state = "LOGIN"
        /\ sm[w].i = 1
        /\ sm[w].request.has_data
        /\ Len(sm[w].credentials) = PoolSize - 2
        /\ sm[w].current_credential = credentials[2]
        /\ credentials[2] \subseteq sm[w].request.data

\* ---- C11
\* C11 (as stated): once the flag is false no Worker begins a task execution:
\* no request is sent in a state where the flag is false.
C11_NoTaskOnceStopped ==
    [][\A w \in DOMAIN sm :
          ~collector.running => ~(sm[w].pc # "await" /\ sm'[w].pc = "await")]_vars

\* C11 (amended): once the flag is false no Worker passes a check of the flag:
\* at the top of its loop it ends its run, before a task it leaves the task
\* list; only a Worker that had passed the check of line 54 already sends that
\* one request; a Worker suspended in a call records its metric, evaluates
\* its transitions and goes to a check or returns; a finished Worker stays so.
C11_NoCheckPassedOnceStopped ==
    [][\A w \in DOMAIN sm :
          ~collector.running =>
              /\ sm[w].pc = "new" => sm'[w].pc \in {"new", "top"}
              /\ sm[w].pc = "top" => sm'[w].pc \in {"top", "exited"}
              /\ sm[w].pc = "for" => sm'[w].pc \in {"for", "top"}
              /\ sm[w].pc # "await" /\ sm'[w].pc = "await" => sm[w].pc = "exec"
              /\ sm[w].pc = "await" /\ sm'[w].pc # "await" =>
                    /\ Len(sm'[w].metrics) = Len(sm[w].metrics) + 1
                    /\ sm'[w].pc \in {"top", "for", "returned"}
              /\ Finished(w) => sm'[w] = sm[w]]_vars

\* C11 witness: with the flag false, a Worker that was suspended in a call has
\* recorded its metric and left its loop in a state of the graph that still
\* has tasks.
C11_Witness ==
    /\ ~collector.running
    /\ \E w \in DOMAIN sm :
          /\ sm[w].pc = "exited"
          /\ sm[w].metrics # <<>>
          /\ InGraph(sm[w].state)
          /\ StateConfig(w).tasks # <<>>

\* ---- C12
\* C12 (as stated): in a state where the flag is false no Worker instance is
\* created and no Worker run is started.
C12_NoLaunchOnceStopped ==
    [][~collector.running =>
          /\ Len(sm') = Len(sm)
          /\ \A w \in DOMAIN sm : ~(sm[w].pc = "new" /\ sm'[w].pc # "new")]_vars

\* C12 (amended): once the flag is false main() passes its check of line 139
\* no more: from the check it leaves the loop, and it launches a population
\* only if it had passed the check already, one per credential; a run that is
\* started with the flag false ends at its first check without a request.
C12_NoLoopCheckPassedOnceStopped ==
    [][~collector.running =>
          /\ main = "check" => main' \in {"check", "report"}
          /\ Len(sm') # Len(sm) =>
                main = "launch" /\ Len(sm') = Len(sm) + Len(credentials)
          /\ main \in {"report", "exit"} => sm' = sm
          /\ \A w \in DOMAIN sm :
                sm[w].pc \in {"new", "top"} /\ sm[w].metrics = <<>> =>
                    /\ sm'[w].pc \in {"new", "top", "exited"}
                    /\ sm'[w].metrics = <<>>]_vars

\* C12 witness: the flag is false, main() has left its loop and reported, and
\* the second population was never launched.
C12_Witness ==
    /\ ~collector.running
    /\ main = "exit"
    /\ Len(sm) = Len(credentials)
    /\ \E w \in DOMAIN sm : sm[w].metrics # <<>>
\* ---- C13
\* main() has left its loop and the report holds the Collector's records
Reported == main = "exit" /\ output = <<collector.metrics>>

\* C13: the report is never emitted twice, main() never exits without it, and
\* from any state where the flag is false main() eventually leaves its loop
\* and the report is emitted with all the records harvested so far (every
\* call in flight returns, by fairness; a run held up by a bound of the model
\* is set aside).
C13_ReportsAfterStop ==
    /\ [](Len(output) <= 1 /\ (main = "exit" => Reported))
    /\ (~collector.running) ~> (Reported \/ Capped)

\* C13 witness: stop() was invoked, main() has exited and the one report holds
\* harvested records, while a Worker of an earlier round is still in a call.
C13_Witness ==
    /\ ~collector.running
    /\ Reported
    /\ collector.metrics # <<>>
    /\ \E w \in DOMAIN sm : sm[w].pc = "await"
\* ---- C14
\* a record has a status or an error, never both and never neither
OneOfStatusError(m) ==
    \/ m.status # NoStatus /\ m.error = NoError
    \/ m.status = NoStatus /\ m.error # NoError

\* C14: a task execution appends exactly one record to the list of the Worker
\* that executed it, tagged with the state the Worker was in and the task's
\* name; nothing else changes a Worker's list; and every record, in a
\* Worker's list or the Collector's, has exactly one of status and error.
C14_OneRecordPerTask ==
    /\ [](/\ \A w \in DOMAIN sm : \A n \in DOMAIN sm[w].metrics :
                 OneOfStatusError(sm[w].metrics[n])
          /\ \A n \in DOMAIN collector.metrics :
                 OneOfStatusError(collector.metrics[n]))
    /\ [][\A w \in DOMAIN sm :
            IF sm[w].pc = "await" /\ sm'[w].pc # "await"
            THEN /\ Len(sm'[w].metrics) = Len(sm[w].metrics) + 1
                 /\ SubSeq(sm'[w].metrics, 1, Len(sm[w].metrics)) = sm[w].metrics
                 /\ Last(sm'[w].metrics).state = sm[w].state
                 /\ Last(sm'[w].metrics).task = StateConfig(w).tasks[sm[w].i].name
                 /\ \A v \in DOMAIN sm \ {w} : sm'[v].metrics = sm[v].metrics
            ELSE sm'[w].metrics = sm[w].metrics]_vars

\* C14 witness: a Worker holds a record with a status and a record with an
\* error, one of them made in a state other than the initial one, and the
\* Collector has harvested records.
C14_Witness ==
    /\ collector.metrics # <<>>
    /\ \E w \in DOMAIN sm : \E a, b \in DOMAIN sm[w].metrics :
          /\ sm[w].metrics[a].status # NoStatus
          /\ sm[w].metrics[b].error # NoError
          /\ sm[w].metrics[b].state # config.initial_state
\* ---- C15
\* the Workers that were launched and whose run has not ended
Live == {w \in DOMAIN sm : ~Finished(w)}

\* C15: a round that passed the check launches one new Worker per credential
\* whatever the earlier Workers are doing, the new ones are fresh and are the
\* round's list, and no step of main() changes a Worker that exists already.
C15_NewPopulationEachRound ==
    [][/\ main = "launch" /\ main' # "launch" =>
             /\ Len(sm') = Len(sm) + Len(credentials)
             /\ \A k \in (Len(sm) + 1)..Len(sm') : sm'[k] = NewStateMachine
             /\ state_machines' = [k \in 1..Len(credentials) |-> Len(sm) + k]
       /\ Len(sm') # Len(sm) => main = "launch"
       /\ main' # main => \A w \in DOMAIN sm : sm'[w] = sm[w]]_vars

\* C15 witness: more Workers are live than the pool has credentials: a second
\* population runs while all but one Worker of the first are still live.
C15_Witness ==
    /\ collector.running
    /\ Cardinality(Live) > Len(credentials)
    /\ Cardinality(Live) = MaxRounds * (Len(credentials) - 1) + 1
    /\ \E w \in Live : w <= Len(credentials) /\ sm[w].pc = "await"
\* ---- C16
\* the initial state, or the target of some transition, names no graph state
Inconsistent(cfg) ==
    \/ cfg.initial_state \notin DOMAIN cfg.states
    \/ \E s \in DOMAIN cfg.states : \E k \in DOMAIN cfg.states[s].transitions :
          cfg.states[s].transitions[k].next_state \notin DOMAIN cfg.states

\* C16: with an inconsistent configuration no Worker is ever launched, so
\* none runs against such a graph.
C16_FailsFastOnInconsistency == Inconsistent(config) => sm = <<>>
\* ---- C17
\* C17: a step of Worker w changes only w: every other Worker, the
\* Collector's records and flag, and the shared configuration stay as they
\* were.
C17_WorkerIsolation ==
    [][\A w \in DOMAIN sm :
          sm'[w] # sm[w] =>
              /\ \A v \in DOMAIN sm \ {w} : sm'[v] = sm[v]
              /\ DOMAIN sm' = DOMAIN sm
              /\ collector' = collector
              /\ config' = config]_vars
\* ---- C18
\* the first transition of the record's state that matches its status exists
\* and is not terminal-flagged
MatchedNonTerminal(m) ==
    LET trs == config.states[m.state].transitions
    IN /\ FirstMatch(trs, m.status) # 0
       /\ ~trs[FirstMatch(trs, m.status)].terminate

Target(m) ==
    LET trs == config.states[m.state].transitions
    IN trs[FirstMatch(trs, m.status)].next_state

\* C18: after a task whose result matched a non-terminal transition the
\* Worker is in the transition's target and has not returned; the next task
\* it executes is the first task of the target, whatever tasks of the old
\* state were left.
C18_TransitionSkipsRest ==
    \A w \in DOMAIN sm :
        \A n \in 1..Len(sm[w].metrics) :
            LET m == sm[w].metrics[n]
            IN MatchedNonTerminal(m) =>
                 IF n < Len(sm[w].metrics)
                 THEN /\ sm[w].metrics[n + 1].state = Target(m)
                      /\ sm[w].metrics[n + 1].task =
                            config.states[Target(m)].tasks[1].name
                 ELSE /\ sm[w].state = Target(m)
                      /\ sm[w].pc # "returned"
                      /\ sm[w].pc \in {"for", "exec", "await"} => sm[w].i = 1
                      /\ sm[w].pc = "await" =>
                            sm[w].request.url = config.states[Target(m)].tasks[1].url

\* C18 witness: a Worker's result matched a non-terminal transition after a
\* task that was not the last of its state, and the Worker's next record is
\* the first task of another state.
C18_Witness ==
    \E w \in DOMAIN sm :
        \E n \in 1..(Len(sm[w].metrics) - 1) :
            LET m == sm[w].metrics[n]
            IN /\ MatchedNonTerminal(m)
               /\ TaskIndex(m.state, m.task) < Len(config.states[m.state].tasks)
               /\ sm[w].metrics[n + 1].state # m.state
\* ---- C19
\* the configuration as main() built it, before any Worker ran
StartupConfig ==
    CHOOSE c \in Configs :
        /\ c.initial_state = config.initial_state
        /\ DOMAIN c.states = DOMAIN config.states

\* C19: the body of a request in flight is the task's body template of the
\* startup configuration, merged with the sending Worker's current
\* credential when the task declares a body and the Worker holds a
\* credential, and the template unchanged otherwise; so it holds no field of
\* a credential that another Worker popped.
C19_BodyFromTemplateAndOwnCredential ==
    \A w \in DOMAIN sm :
        sm[w].pc = "await" =>
            LET t == StartupConfig.states[sm[w].state].tasks[sm[w].i].params
            IN /\ sm[w].request.has_data = t.has_data
               /\ sm[w].request.data =
                     IF t.has_data /\ sm[w].current_credential # {}
                     THEN Update(t.data, sm[w].current_credential)
                     ELSE t.data
\* ---- C20
\* C20: a Worker's queue never grows; the step that sends a task's request in
\* state "LOGIN" with a non-empty queue takes the head of the queue as the
\* current credential and leaves the tail, for every task of the state and
\* not once per entry; with the queue empty or in another state the step
\* leaves queue and current credential as they were; and so does every other
\* step.
C20_PopPerLoginTask ==
    [][\A w \in DOMAIN sm :
          /\ Len(sm'[w].credentials) <= Len(sm[w].credentials)
          /\ IF /\ sm[w].pc = "exec" /\ sm'[w].pc = "await"
                /\ sm[w].state = "LOGIN" /\ sm[w].credentials # <<>>
             THEN /\ sm'[w].credentials = Tail(sm[w].credentials)
                  /\ sm'[w].current_credential = Head(sm[w].credentials)
             ELSE /\ sm'[w].credentials = sm[w].credentials
                  /\ sm'[w].current_credential = sm[w].current_credential]_vars

\* C20 witness: a Worker executed two different tasks of "LOGIN" in its first
\* pass, taking a credential for each, and is in a later call with its queue
\* empty and the last credential of the pool still current.
C20_Witness ==
    \E w \in DOMAIN sm :
        /\ Len(sm[w].metrics) >= Len(credentials)
        /\ sm[w].metrics[1].state = "LOGIN"
        /\ sm[w].metrics[2].state = "LOGIN"
        /\ sm[w].metrics[1].task # sm[w].metrics[2].task
        /\ sm[w].pc = "await"
        /\ sm[w].credentials = <<>>
        /\ sm[w].current_credential = Last(credentials)

====
